---- MODULE Spec2Model ----
(***************************************************************************)
(* Model of the byte-accurate richtext core of bsky-richtext-react:        *)
(*   - the UTF-8 byte offset codec            (src/utils/utf8.ts)          *)
(*   - the facet segmenter parseRichText      (src/utils/parser.ts)        *)
(*   - the class-name composer generateClassNames (src/utils/classNames.ts)*)
(*   - the mention search searchBskyActors and its debounced wrapper        *)
(*     createDebouncedSearch                    (src/utils/blueskyApi.ts)   *)
(* A JavaScript string is a sequence of UTF-16 code units (integers); a    *)
(* Uint8Array is a sequence of bytes (integers 0..255).                    *)
(***************************************************************************)
EXTENDS Integers, Sequences, FiniteSets, TLC

VARIABLES
    record,      \* the RichTextRecord handed to parseRichText or useRichText
    segments,    \* the RichTextSegment[] it returned
    spans,       \* per returned segment, the byte range it was sliced with
    pc,          \* "input" before the call, "parsed" after it
    byteOffset,  \* the byteOffset handed to utf8ByteOffsetToCharIndex
    charIndex,   \* the index it returned (-1 before the call)
    classNamesArray,  \* the layers handed to generateClassNames
    cnArg,       \* its cn argument: "undefined" or the name of a combiner
    merged,      \* the object it returned
    timeoutId,   \* createDebouncedSearch: the id of the scheduled timer, 0 = null
    timers,      \* the timers set and neither fired nor cleared
    pendingResolvers,  \* createDebouncedSearch: the queued resolvers
    promises,    \* the promises the debounced function returned, in call order
    searches,    \* the calls of searchBskyActors, in call order
    mentionQuery,    \* suggestion.items: the query it is called with
    onMentionQuery,  \* what the consumer's onMentionQuery does when called
    queryCalls,      \* how often onMentionQuery has been called
    items,       \* the promise suggestion.items returned
    listItems,      \* MentionSuggestionList: the items prop of the last render
    selectedIndex,  \* its selectedIndex state
    effectPending,  \* the effect of the last render has not run yet
    commands,       \* the calls of the command prop, in call order
    facetsRef,      \* useRichText: the identity of record.facets, 0 = absent
    arrays,         \* the facets arrays the caller has made, by identity
    facetsKeyMemo,  \* the cell of the first useMemo: its deps and value
    segmentsMemo,   \* the cell of the second useMemo: its deps and value
    recomputed      \* the last render called parseRichText

vars == <<record, segments, spans, pc, byteOffset, charIndex,
          classNamesArray, cnArg, merged,
          timeoutId, timers, pendingResolvers, promises, searches,
          mentionQuery, onMentionQuery, queryCalls, items,
          listItems, selectedIndex, effectPending, commands,
          facetsRef, arrays, facetsKeyMemo, segmentsMemo, recomputed>>

parserVars == <<record, segments, spans, byteOffset, charIndex>>
classNamesVars == <<classNamesArray, cnArg, merged>>
searchVars == <<timeoutId, timers, pendingResolvers, promises, searches>>
mentionVars == <<mentionQuery, onMentionQuery, queryCalls, items>>
listVars == <<listItems, selectedIndex, effectPending, commands>>
hookVars == <<facetsRef, arrays, facetsKeyMemo, segmentsMemo, recomputed>>
uiVars == <<mentionVars, listVars, hookVars>>

\* ---------------------------------------------------------------- bounds
MaxLen == 3        \* longest text, in UTF-16 code units
MaxOff == 4        \* largest byteStart / byteEnd of a facet
MaxFacets == 2     \* most facets in a record
MaxLayers == 3     \* most layers handed to generateClassNames
MaxCalls == 3      \* most calls of one debounced search function
MaxResults == 10   \* most results onMentionQuery resolves with
MaxItems == 3      \* most items handed to MentionSuggestionList
MaxCommands == 2   \* most calls of its command prop
MaxArrays == 2     \* most facets arrays the caller of useRichText makes

\* ------------------------------------------------------------ code units
CharA == 97            \* 'a'      : 1 byte in UTF-8
CharBOM == 65279       \* U+FEFF   : 3 bytes in UTF-8 (EF BB BF)
CharHi == 55356        \* 0xD83C, high surrogate of U+1F389
CharLo == 57225        \* 0xDF89, low surrogate of U+1F389
Replacement == 65533   \* U+FFFD

Alphabet == {CharA, CharBOM, CharHi, CharLo}

RECURSIVE StringsUpTo(_)
StringsUpTo(n) ==
    IF n = 0 THEN {<<>>}
    ELSE LET shorter == StringsUpTo(n - 1)
         IN  shorter \cup {Append(s, c) : s \in {t \in shorter : Len(t) = n - 1}, c \in Alphabet}

\* every JS string of at most MaxLen code units over the alphabet, lone
\* surrogates included
Texts == StringsUpTo(MaxLen)

\* ------------------------------------------------- TextEncoder (UTF-8)
IsHighSurrogate(u) == u >= 55296 /\ u <= 56319
IsLowSurrogate(u) == u >= 56320 /\ u <= 57343

\* The scalar values of a JS string: a surrogate pair is one code point, a
\* lone surrogate is replaced by U+FFFD.
RECURSIVE ToScalarValues(_)
ToScalarValues(s) ==
    IF s = <<>> THEN <<>>
    ELSE IF IsHighSurrogate(s[1]) /\ Len(s) >= 2 /\ IsLowSurrogate(s[2])
         THEN <<65536 + (s[1] - 55296) * 1024 + (s[2] - 56320)>>
                  \o ToScalarValues(SubSeq(s, 3, Len(s)))
    ELSE IF IsHighSurrogate(s[1]) \/ IsLowSurrogate(s[1])
         THEN <<Replacement>> \o ToScalarValues(Tail(s))
    ELSE <<s[1]>> \o ToScalarValues(Tail(s))

EncodeCodePoint(cp) ==
    IF cp < 128 THEN <<cp>>
    ELSE IF cp < 2048 THEN <<192 + (cp \div 64), 128 + (cp % 64)>>
    ELSE IF cp < 65536
         THEN <<224 + (cp \div 4096), 128 + ((cp \div 64) % 64), 128 + (cp % 64)>>
    ELSE <<240 + (cp \div 262144), 128 + ((cp \div 4096) % 64),
           128 + ((cp \div 64) % 64), 128 + (cp % 64)>>

RECURSIVE EncodeScalars(_)
EncodeScalars(cps) ==
    IF cps = <<>> THEN <<>>
    ELSE EncodeCodePoint(cps[1]) \o EncodeScalars(Tail(cps))

\* encoder.encode(text)
toUtf8Bytes(text) == EncodeScalars(ToScalarValues(text))

\* ------------------------------------------------- TextDecoder (UTF-8)
\* The code points of a byte sequence, with U+FFFD for every maximal
\* ill-formed subsequence (a sequence cut short at the end is one U+FFFD).
\* needed = continuation bytes still expected, cp = code point so far,
\* lower..upper = range the next continuation byte must be in.
RECURSIVE DecodeFrom(_, _, _, _, _, _)
DecodeFrom(bytes, i, needed, cp, lower, upper) ==
    IF i > Len(bytes)
    THEN IF needed # 0 THEN <<Replacement>> ELSE <<>>
    ELSE LET b == bytes[i] IN
         IF needed = 0
         THEN IF b <= 127 THEN <<b>> \o DecodeFrom(bytes, i + 1, 0, 0, 128, 191)
              ELSE IF b >= 194 /\ b <= 223
                   THEN DecodeFrom(bytes, i + 1, 1, b % 32, 128, 191)
              ELSE IF b >= 224 /\ b <= 239
                   THEN DecodeFrom(bytes, i + 1, 2, b % 16,
                                   IF b = 224 THEN 160 ELSE 128,
                                   IF b = 237 THEN 159 ELSE 191)
              ELSE IF b >= 240 /\ b <= 244
                   THEN DecodeFrom(bytes, i + 1, 3, b % 8,
                                   IF b = 240 THEN 144 ELSE 128,
                                   IF b = 244 THEN 143 ELSE 191)
              ELSE <<Replacement>> \o DecodeFrom(bytes, i + 1, 0, 0, 128, 191)
         ELSE IF b < lower \/ b > upper
              THEN <<Replacement>> \o DecodeFrom(bytes, i, 0, 0, 128, 191)
              ELSE IF needed = 1
                   THEN <<cp * 64 + (b % 64)>> \o DecodeFrom(bytes, i + 1, 0, 0, 128, 191)
                   ELSE DecodeFrom(bytes, i + 1, needed - 1, cp * 64 + (b % 64), 128, 191)

\* A decoded code point as UTF-16 code units.
ToCodeUnits(cp) ==
    IF cp >= 65536
    THEN <<55296 + ((cp - 65536) \div 1024), 56320 + ((cp - 65536) % 1024)>>
    ELSE <<cp>>

RECURSIVE CodeUnitsOf(_)
CodeUnitsOf(cps) ==
    IF cps = <<>> THEN <<>>
    ELSE ToCodeUnits(cps[1]) \o CodeUnitsOf(Tail(cps))

\* new TextDecoder().decode(bytes): ignoreBOM is false by default, so a
\* leading U+FEFF is not part of the returned string.
Decode(bytes) ==
    LET cps == DecodeFrom(bytes, 1, 0, 0, 128, 191)
    IN  IF cps # <<>> /\ cps[1] = CharBOM
        THEN CodeUnitsOf(Tail(cps))
        ELSE CodeUnitsOf(cps)

\* Uint8Array.prototype.slice(0, end)
BytesSlice0(bytes, end) ==
    LET len == Len(bytes)
        final == IF end < 0 THEN (IF len + end > 0 THEN len + end ELSE 0)
                 ELSE (IF end < len THEN end ELSE len)
    IN  SubSeq(bytes, 1, final)

\* String.prototype.slice(start, end) for 0 <= start, 0 <= end
StringSlice(s, start, end) ==
    LET len == Len(s)
        from == IF start < len THEN start ELSE len
        to == IF end < len THEN end ELSE len
    IN  SubSeq(s, from + 1, to)

\* ------------------------------------------------------------ utf8.ts
\* slip: the byte offset is returned as the index
utf8ByteOffsetToCharIndex_Bytes(text, offset) == offset

utf8ByteOffsetToCharIndex(text, offset) ==
    Len(Decode(BytesSlice0(toUtf8Bytes(text), offset)))

sliceByByteOffset(text, byteStart, byteEnd) ==
    StringSlice(text, utf8ByteOffsetToCharIndex(text, byteStart),
                      utf8ByteOffsetToCharIndex(text, byteEnd))

utf8ByteLength(text) == Len(toUtf8Bytes(text))

\* ------------------------------------------------------------ parser.ts
\* A facet is [byteStart, byteEnd, features]; features is a sequence of
\* feature tags.  A segment is [text, feature] where feature is <<>> when
\* the segment has no feature property and <<f>> when it carries f.
FeatureLists == {<<>>, <<"mention", "link">>}

Facets == [byteStart : 0..MaxOff, byteEnd : 0..MaxOff, features : FeatureLists]

RECURSIVE FacetListsUpTo(_)
FacetListsUpTo(n) ==
    IF n = 0 THEN {<<>>}
    ELSE LET shorter == FacetListsUpTo(n - 1)
         IN  shorter \cup {Append(s, f) : s \in {t \in shorter : Len(t) = n - 1}, f \in Facets}

\* record.text is the text of a post as decoded from its JSON: well-formed
\* UTF-16, every surrogate is half of a pair.
WellFormed(t) == Replacement \notin {ToScalarValues(t)[i] : i \in 1..Len(ToScalarValues(t))}

RecordTexts == {t \in Texts : WellFormed(t)}

\* record.facets is absent (hasFacets = FALSE) or an array
Records ==
    {[text |-> t, hasFacets |-> FALSE, facets |-> <<>>] : t \in RecordTexts}
    \cup {[text |-> t, hasFacets |-> TRUE, facets |-> fs] :
              t \in RecordTexts, fs \in FacetListsUpTo(MaxFacets)}

\* slip: x goes before the elements with the same byteStart
InsertFacet_BeforeTies(sorted, x) ==
    LET k == Cardinality({i \in 1..Len(sorted) : sorted[i].byteStart < x.byteStart})
    IN  SubSeq(sorted, 1, k) \o <<x>> \o SubSeq(sorted, k + 1, Len(sorted))

\* [...facets].sort((a, b) => a.index.byteStart - b.index.byteStart):
\* Array.prototype.sort is stable, so x goes after every element whose
\* byteStart is not larger.
InsertFacet(sorted, x) ==
    LET k == Cardinality({i \in 1..Len(sorted) : sorted[i].byteStart <= x.byteStart})
    IN  SubSeq(sorted, 1, k) \o <<x>> \o SubSeq(sorted, k + 1, Len(sorted))

\* slip: the copy is not sorted
sortFacets_InputOrder(facets) == facets

RECURSIVE sortFacets(_)
sortFacets(facets) ==
    IF facets = <<>> THEN <<>>
    ELSE InsertFacet(sortFacets(SubSeq(facets, 1, Len(facets) - 1)), facets[Len(facets)])

\* slip: the last entry is picked
pickFeature_Last(features) ==
    IF features = <<>> THEN <<>> ELSE <<features[Len(features)]>>

\* features[0], absent when the array is empty
pickFeature(features) == IF features = <<>> THEN <<>> ELSE <<features[1]>>

\* slip: only an absent facets property returns early
NoFacets_OnlyAbsent(rec) == ~rec.hasFacets

\* if (!facets || facets.length === 0)
NoFacets(rec) == ~rec.hasFacets \/ Len(rec.facets) = 0

\* slip: a facet with byteStart = byteEnd is let through
SkipFacet_AllowEmptyRange(facet, cursor, textByteLength) ==
    \/ facet.byteStart < cursor
    \/ facet.byteEnd > textByteLength
    \/ facet.byteStart > facet.byteEnd

\* slip: the overlap test is missing
SkipFacet_NoOverlapTest(facet, cursor, textByteLength) ==
    \/ facet.byteEnd > textByteLength
    \/ facet.byteStart >= facet.byteEnd

\* slip: the bounds test is missing
SkipFacet_NoBoundsTest(facet, cursor, textByteLength) ==
    \/ facet.byteStart < cursor
    \/ facet.byteStart >= facet.byteEnd

\* if (byteStart < cursor || byteEnd > textByteLength || byteStart >= byteEnd) continue
SkipFacet(facet, cursor, textByteLength) ==
    \/ facet.byteStart < cursor
    \/ facet.byteEnd > textByteLength
    \/ facet.byteStart >= facet.byteEnd

\* slip: the cursor is left at the start of the accepted facet
CursorAfter_Start(facet) == facet.byteStart

\* cursor = byteEnd
CursorAfter(facet) == facet.byteEnd

\* The state of the for loop after the first k facets of sorted: the byte
\* cursor, the segments pushed so far and, for each of them, the byte range
\* handed to sliceByByteOffset and the position in sorted of its facet
\* (0 for a plain segment).
RECURSIVE ParseLoop(_, _, _, _)
ParseLoop(text, textByteLength, sorted, k) ==
    IF k = 0 THEN [cursor |-> 0, segments |-> <<>>, spans |-> <<>>]
    ELSE LET st == ParseLoop(text, textByteLength, sorted, k - 1)
             facet == sorted[k]
             gap == facet.byteStart > st.cursor
         IN  IF SkipFacet(facet, st.cursor, textByteLength) THEN st
             ELSE [cursor |-> CursorAfter(facet),
                   segments |->
                       (IF gap
                        THEN Append(st.segments,
                                 [text |-> sliceByByteOffset(text, st.cursor, facet.byteStart),
                                  feature |-> <<>>])
                        ELSE st.segments)
                       \o <<[text |-> sliceByByteOffset(text, facet.byteStart, facet.byteEnd),
                             feature |-> pickFeature(facet.features)]>>,
                   spans |->
                       (IF gap
                        THEN Append(st.spans,
                                 [from |-> st.cursor, to |-> facet.byteStart, facet |-> 0])
                        ELSE st.spans)
                       \o <<[from |-> facet.byteStart, to |-> facet.byteEnd, facet |-> k]>>]

\* parseRichText(record), with the byte ranges of the returned segments
ParseRun(rec) ==
    IF NoFacets(rec)
    THEN [segments |-> <<[text |-> rec.text, feature |-> <<>>]>>,
          spans |-> <<[from |-> 0, to |-> utf8ByteLength(rec.text), facet |-> 0]>>]
    ELSE LET textByteLength == utf8ByteLength(rec.text)
             sorted == sortFacets(rec.facets)
             st == ParseLoop(rec.text, textByteLength, sorted, Len(sorted))
         IN  IF st.cursor < textByteLength
             THEN [segments |-> Append(st.segments,
                       [text |-> sliceByByteOffset(rec.text, st.cursor, textByteLength),
                        feature |-> <<>>]),
                   spans |-> Append(st.spans,
                       [from |-> st.cursor, to |-> textByteLength, facet |-> 0])]
             ELSE [segments |-> st.segments, spans |-> st.spans]

parseRichText(rec) == ParseRun(rec).segments

\* -------------------------------------------------------- classNames.ts
\* JavaScript values: undefined, null, false, a string (a sequence of
\* characters) or an object, which has an identity (ref; 0 for an object
\* allocated by generateClassNames) and own properties f.
Undefined == [t |-> "undefined"]
Null == [t |-> "null"]
False == [t |-> "false"]
Str(chars) == [t |-> "string", s |-> chars]
Obj(ref, f) == [t |-> "object", ref |-> ref, f |-> f]
NoProps == [k \in {} |-> Undefined]
\* the outcome of a call that threw a TypeError
TypeError == [t |-> "TypeError"]

IsString(v) == v.t = "string"
IsObject(v) == v.t = "object"

\* Boolean(v)
Truthy(v) == IsObject(v) \/ (IsString(v) /\ v.s # <<>>)

\* v !== undefined
Defined(v) == v # Undefined

\* the property names of the characters of a string
IndexKeys == <<"0", "1", "2", "3", "4", "5", "6", "7">>

\* Object.keys(v) for an object or a string
OwnKeys(v) ==
    IF IsObject(v) THEN DOMAIN v.f
    ELSE IF IsString(v) THEN {IndexKeys[i] : i \in 1..Len(v.s)}
    ELSE {}

\* v[key] for an object or a string; key is no member of a prototype
GetProp(v, key) ==
    IF IsObject(v) THEN (IF key \in DOMAIN v.f THEN v.f[key] ELSE Undefined)
    ELSE IF IsString(v) /\ \E i \in 1..Len(v.s) : IndexKeys[i] = key
         THEN Str(<<v.s[CHOOSE i \in 1..Len(v.s) : IndexKeys[i] = key]>>)
    ELSE Undefined

\* strs.join(sep)
RECURSIVE Join(_, _)
Join(strs, sep) ==
    IF strs = <<>> THEN <<>>
    ELSE IF Len(strs) = 1 THEN strs[1]
    ELSE strs[1] \o sep \o Join(Tail(strs), sep)

NonEmpty(chars) == chars # <<>>

\* slip: the empty strings are joined too
DefaultMerge_NoFilter(args) == Join(args, <<" ">>)

\* (...args) => args.filter(Boolean).join(' ')
DefaultMerge(args) == Join(SelectSeq(args, NonEmpty), <<" ">>)

\* a combiner a caller may pass: (...args) => args.join('|')
CnJoinAll(args) == Join(args, <<"|">>)

\* slip: the empty strings are dropped before the combiner sees them
Merge_FilterFirst(cn, args) ==
    IF cn = "undefined" THEN DefaultMerge(args) ELSE CnJoinAll(SelectSeq(args, NonEmpty))

\* cn ?? default, applied to string arguments
Merge(cn, args) == IF cn = "undefined" THEN DefaultMerge(args) ELSE CnJoinAll(args)

\* slip: only undefined layers are dropped
ValidObjects_OnlyUndefined(layers) == SelectSeq(layers, Defined)

\* classNamesArray.filter((obj) => Boolean(obj))
ValidObjects(layers) == SelectSeq(layers, Truthy)

\* slip: the undefined values are not filtered out
ValuesForKey_KeepUndefined(validObjects, key) ==
    [i \in 1..Len(validObjects) |-> GetProp(validObjects[i], key)]

\* validObjects.map((obj) => obj[key]).filter((v) => v !== undefined)
ValuesForKey(validObjects, key) ==
    SelectSeq([i \in 1..Len(validObjects) |-> GetProp(validObjects[i], key)], Defined)

\* slip: the nested call is made without the combiner
NestedCn_Dropped(cn) == "undefined"

\* the cn argument of the recursive call
NestedCn(cn) == cn

RECURSIVE generateClassNames(_, _)

\* slip: a single nested object is passed through instead of being copied
MergeValues_PassSingle(values, cn) ==
    IF IsObject(values[1])
    THEN (IF Len(values) = 1 THEN values[1]
          ELSE generateClassNames(values, NestedCn(cn)))
    ELSE IF \A i \in 1..Len(values) : IsString(values[i])
         THEN Str(Merge(cn, [i \in 1..Len(values) |-> values[i].s]))
    ELSE values[Len(values)]

\* slip: only the first and the last of the string values are combined
MergeValues_FirstAndLast(values, cn) ==
    IF IsObject(values[1])
    THEN generateClassNames(values, NestedCn(cn))
    ELSE IF \A i \in 1..Len(values) : IsString(values[i])
         THEN Str(Merge(cn, IF Len(values) = 1 THEN <<values[1].s>>
                            ELSE <<values[1].s, values[Len(values)].s>>))
    ELSE values[Len(values)]

\* the value of result[key] from the values defined for key: the if / else
\* if / else on firstValue
MergeValues(values, cn) ==
    IF IsObject(values[1])
    THEN generateClassNames(values, NestedCn(cn))
    ELSE IF \A i \in 1..Len(values) : IsString(values[i])
         THEN Str(Merge(cn, [i \in 1..Len(values) |-> values[i].s]))
    ELSE values[Len(values)]

generateClassNames(layers, cn) ==
    LET validObjects == ValidObjects(layers)
        allKeys == UNION {OwnKeys(validObjects[i]) : i \in 1..Len(validObjects)}
        kept == {k \in allKeys : ValuesForKey(validObjects, k) # <<>>}
        ValueFor(key) == MergeValues(ValuesForKey(validObjects, key), cn)
    IN  IF validObjects = <<>> THEN Obj(0, NoProps)
        \* Object.keys(undefined) and Object.keys(null) throw
        ELSE IF \E i \in 1..Len(validObjects) : validObjects[i] \in {Undefined, Null}
             THEN TypeError
        ELSE IF \E k \in kept : ValueFor(k) = TypeError THEN TypeError
        ELSE Obj(0, [k \in kept |-> ValueFor(k)])

\* ------------------------------------ the layers a caller may hand over
Keys == {"root", "item"}
NestedKeys == {"item"}
ClassStrings == {<<>>, <<"a">>, <<"b">>}
LeafValues == {Undefined} \cup {Str(c) : c \in ClassStrings}

\* the objects nested two levels down
DeepObjects(ref) ==
    {Obj(ref, [k \in {key} |-> Str(c)]) : key \in NestedKeys, c \in {<<"a">>, <<"b">>}}

\* objects with at most one own property; ref is the object's identity
NestedObjects(ref) ==
    {Obj(ref, NoProps)}
    \cup {Obj(ref, [k \in {key} |-> v]) :
              key \in NestedKeys, v \in LeafValues \cup DeepObjects(ref + 1)}

\* the layer at position i: a falsy entry or an object, whose identity and
\* those of the objects nested in it are its own
LayersAt(i) ==
    {Undefined, Null, False}
    \cup {Obj(3 * i - 2, NoProps)}
    \cup {Obj(3 * i - 2, [k \in {key} |-> v]) :
              key \in Keys, v \in LeafValues \cup NestedObjects(3 * i - 1)}

RECURSIVE LayerListsUpTo(_)
LayerListsUpTo(n) ==
    IF n = 0 THEN {<<>>}
    ELSE LET shorter == LayerListsUpTo(n - 1)
         IN  shorter \cup {Append(s, l) : s \in {t \in shorter : Len(t) = n - 1},
                                         l \in LayersAt(n)}

Combiners == {"undefined", "joinAll"}

ClassNamesIdle ==
    /\ classNamesArray = <<>>
    /\ cnArg = "undefined"
    /\ merged = Undefined

\* ======================================================= blueskyApi.ts
\* a query is a sequence of characters
Queries == {<<>>, <<" ">>, <<"a">>, <<" ", "b">>}

\* String.prototype.trim over the characters of the queries
RECURSIVE TrimStart(_)
TrimStart(q) == IF q # <<>> /\ Head(q) = " " THEN TrimStart(Tail(q)) ELSE q

RECURSIVE TrimEnd(_)
TrimEnd(q) ==
    IF q # <<>> /\ q[Len(q)] = " " THEN TrimEnd(SubSeq(q, 1, Len(q) - 1)) ELSE q

Trim(q) == TrimEnd(TrimStart(q))

\* how the promise of fetch settles, and how that of res.json() does
FetchOutcomes == {"rejects", "notOk", "ok"}
JsonOutcomes == {"rejects", "noActors", "actors"}

\* the actors the server answers a search for q with; an optional field is a
\* sequence of length 0 (absent) or 1
ServerActors(q) ==
    <<[did |-> <<"did:">> \o q, handle |-> q, displayName |-> <<q>>, avatar |-> <<>>]>>

\* actor => MentionSuggestion
ToSuggestion(actor) ==
    [did |-> actor.did, handle |-> actor.handle,
     displayName |-> actor.displayName, avatarUrl |-> actor.avatar]

\* the completion of a function body: a return with a value, or a throw
Return(v) == [kind |-> "return", value |-> v]
Throw == [kind |-> "throw", value |-> <<>>]

\* slip: no catch clause, a throw leaves the function
Catch_Rethrow(c) == c

\* try { ... } catch { return [] }
Catch(c) == IF c.kind = "throw" THEN Return(<<>>) ELSE c

\* a call of searchBskyActors: where it stands (phase "fetch": awaiting
\* fetch, "json": awaiting res.json(), "done": its promise has settled), the
\* URL parameter q it fetched with, how its promise settled and with what.
\* via is the call of the debounced function whose timer made the call.
Search(query, via, phase, state, value, why) ==
    [query |-> query, via |-> via, phase |-> phase,
     fetched |-> why # "blank", q |-> Trim(query),
     state |-> state, value |-> value, why |-> why]

\* the promise of an async function settles with the completion of its body
Settled(s, c, why) ==
    Search(s.query, s.via, "done",
           IF c.kind = "return" THEN "fulfilled" ELSE "rejected", c.value, why)

\* searchBskyActors up to its first await
SearchStart(query, via) ==
    IF Trim(query) = <<>>
    THEN Search(query, via, "done", "fulfilled", <<>>, "blank")
    ELSE Search(query, via, "fetch", "pending", <<>>, "none")

\* searchBskyActors from await fetch(...) to await res.json()
AfterFetch(s, outcome) ==
    IF outcome = "rejects" THEN Settled(s, Catch(Throw), "fetchRejects")
    ELSE IF outcome = "notOk" THEN Settled(s, Catch(Return(<<>>)), "notOk")
    ELSE Search(s.query, s.via, "json", "pending", <<>>, "none")

\* searchBskyActors from await res.json() to its end
AfterJson(s, outcome) ==
    IF outcome = "rejects" THEN Settled(s, Catch(Throw), "jsonRejects")
    ELSE IF outcome = "noActors" THEN Settled(s, Catch(Return(<<>>)), "noActors")
    ELSE LET actors == ServerActors(s.q)
         IN  Settled(s, Catch(Return([i \in 1..Len(actors) |-> ToSuggestion(actors[i])])),
                     "actors")

\* the promise the debounced function returns for its call number id
NewPromise(query, run) ==
    [query |-> query, run |-> run, state |-> "pending", value |-> <<>>, from |-> 0]

\* slip: the previous timer is left to fire
ClearTimeout_Noop(ts, id) == ts

\* clearTimeout(timeoutId)
ClearTimeout(ts, id) == {t \in ts : t.id # id}

\* the timer of the latest call has not fired: less than delayMs have passed
\* since that call (a timer fires when its delay has passed, not later)
WindowOpen == \E t \in timers : t.id = Len(promises)

\* the run of calls a new call belongs to: that of the call before it when it
\* arrives less than delayMs after it, a new one otherwise
RunOfNextCall ==
    IF promises = <<>> THEN 1
    ELSE IF WindowOpen THEN promises[Len(promises)].run
    ELSE promises[Len(promises)].run + 1

\* pendingResolvers.splice(0, pendingResolvers.length); for (r of toResolve)
\* r(results): resolve of a settled promise does nothing
Flush(ps, resolvers, results, from) ==
    [k \in 1..Len(ps) |->
        IF (\E i \in 1..Len(resolvers) : resolvers[i] = k) /\ ps[k].state = "pending"
        THEN [ps[k] EXCEPT !.state = "fulfilled", !.value = results, !.from = from]
        ELSE ps[k]]

SearchIdle ==
    /\ timeoutId = 0
    /\ timers = {}
    /\ pendingResolvers = <<>>
    /\ promises = <<>>
    /\ searches = <<>>

\* ======================================================= BskyMention.ts
\* the queries the suggestion plugin hands to items
MentionQueries == {<<>>, <<" ">>, <<"a">>, <<"a", "b">>}

\* what onMentionQuery(query) does: it throws, or returns a promise that is
\* rejected, or one that is fulfilled with a list of suggestions
QueryBehaviours ==
    {[kind |-> "throws", results |-> <<>>], [kind |-> "rejects", results |-> <<>>]}
    \cup {[kind |-> "resolves", results |-> [i \in 1..n |-> i]] : n \in 0..MaxResults}

\* the most items returned
SuggestionLimit == 8

\* slip: all results are returned
SliceFirst_All(results, n) == results

\* results.slice(0, n)
SliceFirst(results, n) ==
    SubSeq(results, 1, IF Len(results) < n THEN Len(results) ELSE n)

\* the promise items returns: not called, pending, or settled with a value
ItemsPromise(state, value) == [state |-> state, value |-> value]

\* try { ... } catch { return [] } of items: the promise of the async
\* function is fulfilled with what the body or the catch clause returns
ItemsSettled(behaviour) ==
    IF behaviour.kind = "resolves"
    THEN ItemsPromise("fulfilled", SliceFirst(behaviour.results, SuggestionLimit))
    ELSE ItemsPromise("fulfilled", <<>>)

MentionIdle ==
    /\ mentionQuery = <<>>
    /\ onMentionQuery = [kind |-> "throws", results |-> <<>>]
    /\ queryCalls = 0
    /\ items = ItemsPromise("none", <<>>)

\* ------------------------------------------- MentionSuggestionList.tsx
\* a JavaScript number: an integer or NaN
Num(n) == [t |-> "number", n |-> n]
NaN == [t |-> "NaN"]

\* a % b for a >= 0 and b >= 0: NaN when a is NaN or b is 0
Remainder(a, b) == IF a = NaN \/ b = 0 THEN NaN ELSE Num(a.n % b)

\* a + n for an integer n
Plus(a, n) == IF a = NaN THEN NaN ELSE Num(a.n + n)

Handles == {"alice", "bob"}

\* the items a render may receive: MentionSuggestion[] by their handles
RECURSIVE ItemListsUpTo(_)
ItemListsUpTo(n) ==
    IF n = 0 THEN {<<>>}
    ELSE LET shorter == ItemListsUpTo(n - 1)
         IN  shorter \cup {Append(l, h) : l \in {t \in shorter : Len(t) = n - 1},
                                          h \in Handles}

\* (prev) => (prev + items.length - 1) % items.length
MoveUp(prev, length) == Remainder(Plus(prev, length - 1), length)

\* (prev) => (prev + 1) % items.length
MoveDown(prev, length) == Remainder(Plus(prev, 1), length)

\* items[index]: the item, or none when index is no index of the array
HasItem(list, index) == index # NaN /\ index.n \in 0..(Len(list) - 1)

\* selectItem(index): command({ id: item.handle }) if (item)
SelectItem(list, index, log) ==
    IF HasItem(list, index)
    THEN Append(log, [id |-> list[index.n + 1], items |-> list])
    ELSE log

ListIdle ==
    /\ listItems = <<>>
    /\ selectedIndex = Num(0)
    /\ effectPending = FALSE
    /\ commands = <<>>

\* ----------------------------------------------------------- useRichText
\* the texts and the facets arrays a component may pass
HookTexts == {<<CharA>>, <<CharA, CharA>>, <<CharBOM, CharA>>}
HookFacets ==
    {[byteStart |-> 0, byteEnd |-> 1, features |-> <<>>],
     [byteStart |-> 1, byteEnd |-> 2, features |-> <<"mention", "link">>],
     [byteStart |-> 0, byteEnd |-> 2, features |-> <<"mention", "link">>]}
HookFacetLists ==
    {<<>>} \cup {<<f>> : f \in HookFacets} \cup {<<f, g>> : f \in HookFacets, g \in HookFacets}

\* String(n) for an integer n >= 0, as a sequence of characters
Digits == <<"0", "1", "2", "3", "4", "5", "6", "7", "8", "9">>
RECURSIVE NumberToString(_)
NumberToString(n) ==
    IF n < 10 THEN <<Digits[n + 1]>>
    ELSE NumberToString(n \div 10) \o <<Digits[(n % 10) + 1]>>

\* JSON.stringify of a feature, a facet and a facets array, as sequences of
\* characters and of the longer pieces that are the same in every output
FeatureToJson(feature) == <<"{\"$type\":\"", feature, "\"}">>
FacetToJson(facet) ==
    <<"{\"index\":{\"byteStart\":">> \o NumberToString(facet.byteStart)
    \o <<",\"byteEnd\":">> \o NumberToString(facet.byteEnd)
    \o <<"},\"features\":[">>
    \o Join([i \in 1..Len(facet.features) |-> FeatureToJson(facet.features[i])], <<",">>)
    \o <<"]}">>
JsonStringify(facets) ==
    <<"[">> \o Join([i \in 1..Len(facets) |-> FacetToJson(facets[i])], <<",">>) \o <<"]">>

\* record.facets ? JSON.stringify(record.facets) : ''
FacetsKey(rec) == IF rec.hasFacets THEN JsonStringify(rec.facets) ELSE <<>>

\* a useMemo cell before the first render
NoMemo == [deps |-> <<>>, value |-> <<>>, set |-> FALSE]

\* useMemo calls its function on the first render and when a dep differs
\* (Object.is) from the one of the render before
DepsChanged(memo, deps) == ~memo.set \/ memo.deps # deps

\* useMemo(() => value, deps)
UseMemo(memo, deps, value) ==
    IF DepsChanged(memo, deps) THEN [deps |-> deps, value |-> value, set |-> TRUE]
    ELSE memo

\* slip: the text is left out of the deps
SegmentsDeps_KeyOnly(rec, facetsKey) == <<facetsKey>>

\* the deps of the second useMemo: [record.text, facetsKey]
SegmentsDeps(rec, facetsKey) == <<rec.text, facetsKey>>

HookIdle ==
    /\ facetsRef = 0
    /\ arrays = <<>>
    /\ facetsKeyMemo = NoMemo
    /\ segmentsMemo = NoMemo
    /\ recomputed = FALSE

UiIdle == MentionIdle /\ ListIdle /\ HookIdle

\* --------------------------------------------------- the parser as a machine
InitParser ==
    /\ record \in Records
    /\ segments = <<>>
    /\ spans = <<>>
    /\ pc = "input"
    /\ byteOffset = 0
    /\ charIndex = -1
    /\ ClassNamesIdle
    /\ SearchIdle
    /\ UiIdle

\* the caller hands a record without a usable facets array to parseRichText
ParseNoFacets ==
    /\ pc = "input"
    /\ NoFacets(record)
    /\ LET run == ParseRun(record)
       IN  segments' = run.segments /\ spans' = run.spans
    /\ pc' = "parsed"
    /\ UNCHANGED <<record, byteOffset, charIndex, classNamesVars, searchVars, uiVars>>

\* the caller hands a record with facets to parseRichText
ParseFacets ==
    /\ pc = "input"
    /\ ~NoFacets(record)
    /\ LET run == ParseRun(record)
       IN  segments' = run.segments /\ spans' = run.spans
    /\ pc' = "parsed"
    /\ UNCHANGED <<record, byteOffset, charIndex, classNamesVars, searchVars, uiVars>>

NextParser == ParseNoFacets \/ ParseFacets

SpecParser == InitParser /\ [][NextParser]_vars

\* ---------------------------------------------------- the codec as a machine
CodecInputs == {[text |-> t, hasFacets |-> FALSE, facets |-> <<>>] : t \in Texts}

InitCodec ==
    /\ record \in CodecInputs
    /\ byteOffset \in 0..(utf8ByteLength(record.text) + 1)
    /\ charIndex = -1
    /\ segments = <<>>
    /\ spans = <<>>
    /\ pc = "input"
    /\ ClassNamesIdle
    /\ SearchIdle
    /\ UiIdle

\* a caller converts a byte offset of record.text
ConvertOffset ==
    /\ pc = "input"
    /\ charIndex' = utf8ByteOffsetToCharIndex(record.text, byteOffset)
    /\ pc' = "converted"
    /\ UNCHANGED <<record, segments, spans, byteOffset, classNamesVars, searchVars, uiVars>>

NextCodec == ConvertOffset

SpecCodec == InitCodec /\ [][NextCodec]_vars

\* --------------------------------------------- the composer as a machine
InitClassNames ==
    /\ classNamesArray \in LayerListsUpTo(MaxLayers)
    /\ cnArg \in Combiners
    /\ merged = Undefined
    /\ pc = "input"
    /\ record = [text |-> <<>>, hasFacets |-> FALSE, facets |-> <<>>]
    /\ segments = <<>>
    /\ spans = <<>>
    /\ byteOffset = 0
    /\ charIndex = -1
    /\ SearchIdle
    /\ UiIdle

\* a caller composes the layers without a combiner
ComposeDefault ==
    /\ pc = "input"
    /\ cnArg = "undefined"
    /\ merged' = generateClassNames(classNamesArray, cnArg)
    /\ pc' = "merged"
    /\ UNCHANGED <<classNamesArray, cnArg, parserVars, searchVars, uiVars>>

\* a caller composes the layers with a combiner of its own
ComposeWithCn ==
    /\ pc = "input"
    /\ cnArg # "undefined"
    /\ merged' = generateClassNames(classNamesArray, cnArg)
    /\ pc' = "merged"
    /\ UNCHANGED <<classNamesArray, cnArg, parserVars, searchVars, uiVars>>

NextClassNames == ComposeDefault \/ ComposeWithCn

SpecClassNames == InitClassNames /\ [][NextClassNames]_vars

\* ------------------------------------- the debounced search as a machine
\* one function returned by createDebouncedSearch(delayMs); searchBskyActors
\* is called by its timers
InitDebounce ==
    /\ SearchIdle
    /\ UiIdle
    /\ pc = "search"
    /\ record = [text |-> <<>>, hasFacets |-> FALSE, facets |-> <<>>]
    /\ segments = <<>>
    /\ spans = <<>>
    /\ byteOffset = 0
    /\ charIndex = -1
    /\ ClassNamesIdle

\* the timer callback after await searchBskyActors(query), for the call of
\* searchBskyActors s: flush when its promise is fulfilled; when it is
\* rejected the callback throws at the await and flushes nothing
AfterSearch(s, from) ==
    IF s.phase = "done" /\ s.state = "fulfilled"
    THEN /\ promises' = Flush(promises, pendingResolvers, s.value, from)
         /\ pendingResolvers' = <<>>
    ELSE UNCHANGED <<promises, pendingResolvers>>

\* a caller calls the debounced function with a query
DebouncedCall ==
    \E query \in Queries :
        /\ Len(promises) < MaxCalls
        /\ LET id == Len(promises) + 1
           IN  /\ promises' = Append(promises, NewPromise(query, RunOfNextCall))
               /\ pendingResolvers' = Append(pendingResolvers, id)
               /\ timers' = (IF timeoutId # 0 THEN ClearTimeout(timers, timeoutId)
                             ELSE timers) \cup {[id |-> id, query |-> query]}
               /\ timeoutId' = id
        /\ UNCHANGED <<searches, pc, parserVars, classNamesVars, uiVars>>

\* delayMs after it was set, a timer runs its callback up to the await of
\* searchBskyActors, and beyond when that call does not wait
TimerFires ==
    \E t \in timers :
        /\ timers' = timers \ {t}
        /\ timeoutId' = 0
        /\ LET s == SearchStart(t.query, t.id)
           IN  /\ searches' = Append(searches, s)
               /\ AfterSearch(s, Len(searches) + 1)
        /\ UNCHANGED <<pc, parserVars, classNamesVars, uiVars>>

\* the promise of fetch settles for a call of searchBskyActors
FetchSettles ==
    \E i \in 1..Len(searches), outcome \in FetchOutcomes :
        /\ searches[i].phase = "fetch"
        /\ LET s == AfterFetch(searches[i], outcome)
           IN  /\ searches' = [searches EXCEPT ![i] = s]
               /\ AfterSearch(s, i)
        /\ UNCHANGED <<timeoutId, timers, pc, parserVars, classNamesVars, uiVars>>

\* the promise of res.json() settles for a call of searchBskyActors
JsonSettles ==
    \E i \in 1..Len(searches), outcome \in JsonOutcomes :
        /\ searches[i].phase = "json"
        /\ LET s == AfterJson(searches[i], outcome)
           IN  /\ searches' = [searches EXCEPT ![i] = s]
               /\ AfterSearch(s, i)
        /\ UNCHANGED <<timeoutId, timers, pc, parserVars, classNamesVars, uiVars>>

NextDebounce ==
    DebouncedCall \/ TimerFires \/ FetchSettles \/ JsonSettles

SpecDebounce == InitDebounce /\ [][NextDebounce]_vars

\* timers fire and the network answers: every set timer that is not cleared
\* fires, every fetch and every res.json() settles
SpecDebounceFair ==
    /\ SpecDebounce
    /\ WF_vars(TimerFires)
    /\ WF_vars(FetchSettles)
    /\ WF_vars(JsonSettles)

\* ------------------------------------ the suggestion items as a machine
InitMention ==
    /\ mentionQuery \in MentionQueries
    /\ onMentionQuery \in QueryBehaviours
    /\ queryCalls = 0
    /\ items = ItemsPromise("none", <<>>)
    /\ pc = "mention"
    /\ record = [text |-> <<>>, hasFacets |-> FALSE, facets |-> <<>>]
    /\ segments = <<>>
    /\ spans = <<>>
    /\ byteOffset = 0
    /\ charIndex = -1
    /\ ClassNamesIdle
    /\ SearchIdle
    /\ ListIdle
    /\ HookIdle

\* items({query}) with an empty query: if (!query) return []
ItemsEmptyQuery ==
    /\ items.state = "none"
    /\ mentionQuery = <<>>
    /\ items' = ItemsPromise("fulfilled", <<>>)
    /\ UNCHANGED <<mentionQuery, onMentionQuery, queryCalls,
                   pc, parserVars, classNamesVars, searchVars, listVars, hookVars>>

\* items({query}) with another query calls onMentionQuery(query); when that
\* throws, the catch clause returns []; otherwise items awaits its promise
ItemsQuery ==
    /\ items.state = "none"
    /\ mentionQuery # <<>>
    /\ queryCalls' = queryCalls + 1
    /\ items' = IF onMentionQuery.kind = "throws"
                THEN ItemsSettled(onMentionQuery)
                ELSE ItemsPromise("pending", <<>>)
    /\ UNCHANGED <<mentionQuery, onMentionQuery,
                   pc, parserVars, classNamesVars, searchVars, listVars, hookVars>>

\* the promise of onMentionQuery settles
QuerySettles ==
    /\ items.state = "pending"
    /\ items' = ItemsSettled(onMentionQuery)
    /\ UNCHANGED <<mentionQuery, onMentionQuery, queryCalls,
                   pc, parserVars, classNamesVars, searchVars, listVars, hookVars>>

NextMention == ItemsEmptyQuery \/ ItemsQuery \/ QuerySettles

SpecMention == InitMention /\ [][NextMention]_vars

\* ---------------------------------- the suggestion list as a machine
\* the component is mounted with its first items: useState(0), and the
\* effect of the first render is still to run
InitList ==
    /\ listItems \in ItemListsUpTo(MaxItems)
    /\ selectedIndex = Num(0)
    /\ effectPending = TRUE
    /\ commands = <<>>
    /\ pc = "list"
    /\ record = [text |-> <<>>, hasFacets |-> FALSE, facets |-> <<>>]
    /\ segments = <<>>
    /\ spans = <<>>
    /\ byteOffset = 0
    /\ charIndex = -1
    /\ ClassNamesIdle
    /\ SearchIdle
    /\ MentionIdle
    /\ HookIdle

ListUnchanged ==
    UNCHANGED <<pc, parserVars, classNamesVars, searchVars, mentionVars, hookVars>>

\* the renderer updates the props: a render with a new items array, whose
\* effect is scheduled
ItemsChanged ==
    /\ \E new \in ItemListsUpTo(MaxItems) : listItems' = new
    /\ effectPending' = TRUE
    /\ UNCHANGED <<selectedIndex, commands>>
    /\ ListUnchanged

\* useEffect(() => { setSelectedIndex(0) }, [items])
EffectRuns ==
    /\ effectPending
    /\ selectedIndex' = Num(0)
    /\ effectPending' = FALSE
    /\ UNCHANGED <<listItems, commands>>
    /\ ListUnchanged

\* onKeyDown with ArrowUp: moveUp(); a pending effect is flushed before the
\* update is rendered, its setSelectedIndex(0) queued after the updater
ArrowUp ==
    /\ selectedIndex' = IF effectPending THEN Num(0)
                        ELSE MoveUp(selectedIndex, Len(listItems))
    /\ effectPending' = FALSE
    /\ UNCHANGED <<listItems, commands>>
    /\ ListUnchanged

\* onKeyDown with ArrowDown: moveDown()
ArrowDown ==
    /\ selectedIndex' = IF effectPending THEN Num(0)
                        ELSE MoveDown(selectedIndex, Len(listItems))
    /\ effectPending' = FALSE
    /\ UNCHANGED <<listItems, commands>>
    /\ ListUnchanged

\* onMouseEnter of the button of a rendered item: setSelectedIndex(index); a
\* pending effect runs before the handler or before the update is rendered
Hover ==
    /\ \E index \in 0..(Len(listItems) - 1) :
           selectedIndex' \in (IF effectPending THEN {Num(0), Num(index)}
                               ELSE {Num(index)})
    /\ effectPending' = FALSE
    /\ UNCHANGED <<listItems, commands>>
    /\ ListUnchanged

\* onKeyDown with Enter or Tab: selectItem(selectedIndex), with the items and
\* the selectedIndex of the last render
EnterOrTab ==
    /\ Len(commands) < MaxCommands
    /\ commands' = SelectItem(listItems, selectedIndex, commands)
    /\ UNCHANGED <<listItems, selectedIndex, effectPending>>
    /\ ListUnchanged

\* onClick of the button of a rendered item: selectItem(index)
Click ==
    /\ Len(commands) < MaxCommands
    /\ \E index \in 0..(Len(listItems) - 1) :
           commands' = SelectItem(listItems, Num(index), commands)
    /\ UNCHANGED <<listItems, selectedIndex, effectPending>>
    /\ ListUnchanged

NextList ==
    ItemsChanged \/ EffectRuns \/ ArrowUp \/ ArrowDown \/ Hover \/ EnterOrTab \/ Click

SpecList == InitList /\ [][NextList]_vars

\* ------------------------------------------- useRichText as a machine
\* a component that calls useRichText, before its first render
InitHook ==
    /\ pc = "hook"
    /\ record = [text |-> <<>>, hasFacets |-> FALSE, facets |-> <<>>]
    /\ segments = <<>>
    /\ spans = <<>>
    /\ byteOffset = 0
    /\ charIndex = -1
    /\ HookIdle
    /\ ClassNamesIdle
    /\ SearchIdle
    /\ MentionIdle
    /\ ListIdle

\* one call useRichText(rec), where ref is the identity of rec.facets
RenderWith(rec, ref) ==
    LET keyMemo == UseMemo(facetsKeyMemo, <<ref>>, FacetsKey(rec))
        deps == SegmentsDeps(rec, keyMemo.value)
    IN  /\ record' = rec
        /\ facetsRef' = ref
        /\ facetsKeyMemo' = keyMemo
        /\ recomputed' = DepsChanged(segmentsMemo, deps)
        /\ segmentsMemo' = UseMemo(segmentsMemo, deps, parseRichText(rec))
        /\ segments' = segmentsMemo'.value
        /\ UNCHANGED <<pc, spans, byteOffset, charIndex,
                       classNamesVars, searchVars, mentionVars, listVars>>

\* a render with a record without facets
RenderNoFacets ==
    \E text \in HookTexts :
        /\ RenderWith([text |-> text, hasFacets |-> FALSE, facets |-> <<>>], 0)
        /\ UNCHANGED arrays

\* a render with a record whose facets array was passed before, not changed
\* since
RenderSameArray ==
    \E text \in HookTexts, ref \in 1..Len(arrays) :
        /\ RenderWith([text |-> text, hasFacets |-> TRUE, facets |-> arrays[ref]], ref)
        /\ UNCHANGED arrays

\* a render with a record whose facets array is a new one
RenderNewArray ==
    /\ Len(arrays) < MaxArrays
    /\ \E text \in HookTexts, facets \in HookFacetLists :
           /\ arrays' = Append(arrays, facets)
           /\ RenderWith([text |-> text, hasFacets |-> TRUE, facets |-> facets],
                         Len(arrays) + 1)

NextHook == RenderNoFacets \/ RenderSameArray \/ RenderNewArray

SpecHook == InitHook /\ [][NextHook]_vars

\* =================================================================== claims
\* -------------------------------------------------- reference definitions
RECURSIVE JoinTexts(_)
JoinTexts(segs) ==
    IF segs = <<>> THEN <<>> ELSE segs[1].text \o JoinTexts(Tail(segs))

\* index i does not split a surrogate pair of t
OnCharBoundary(t, i) ==
    ~(i >= 1 /\ i < Len(t) /\ IsHighSurrogate(t[i]) /\ IsLowSurrogate(t[i + 1]))

\* the UTF-16 indices of t whose prefix has exactly off bytes in UTF-8
PrefixIndices(t, off) ==
    {i \in 0..Len(t) : OnCharBoundary(t, i) /\ utf8ByteLength(SubSeq(t, 1, i)) = off}

\* off falls on a code-point boundary of the UTF-8 encoding of t
OnCodePointBoundary(t, off) == PrefixIndices(t, off) # {}

\* the part of t whose UTF-8 encoding occupies bytes [from, to)
TextOfBytes(t, from, to) ==
    LET i == CHOOSE x \in PrefixIndices(t, from) : TRUE
        j == CHOOSE x \in PrefixIndices(t, to) : TRUE
    IN  SubSeq(t, i + 1, j)

Parsed == pc = "parsed"
TextByteLength == utf8ByteLength(record.text)
Sorted == sortFacets(record.facets)
LoopAfter(k) == ParseLoop(record.text, TextByteLength, Sorted, k)
AnnotatedSpans == {i \in 1..Len(spans) : spans[i].facet # 0}

\* C1 (as claimed): for every record, the texts of the returned segments,
\* concatenated in order, are exactly record.text.
C1_RoundTrip == Parsed => JoinTexts(segments) = record.text

\* C2: the byte ranges the returned segments were cut with are contiguous,
\* non-overlapping and cover [0, utf8ByteLength(text)) exactly once: the first
\* starts at 0, each next one starts where the previous ended, the last ends at
\* utf8ByteLength(text); a segment cut by the loop has the slice of its range
\* as text.
C2_GapFree ==
    Parsed =>
        /\ Len(spans) = Len(segments)
        /\ \A i \in 1..Len(spans) :
              /\ spans[i].from <= spans[i].to
              /\ spans[i].from = (IF i = 1 THEN 0 ELSE spans[i - 1].to)
              /\ (spans[i].from = spans[i].to) => TextByteLength = 0
              /\ ~NoFacets(record) =>
                     segments[i].text
                         = sliceByByteOffset(record.text, spans[i].from, spans[i].to)
        /\ (IF spans = <<>> THEN 0 ELSE spans[Len(spans)].to) = TextByteLength

\* C2 witness: a parse that returned an annotated, a plain and another
\* annotated segment.
C2_Witness ==
    /\ Parsed
    /\ Len(spans) = 3
    /\ spans[1].facet # 0 /\ spans[2].facet = 0 /\ spans[3].facet # 0

\* a facet the claim C3 calls malformed
Malformed(f) == f.byteStart > f.byteEnd \/ f.byteEnd > TextByteLength

WithoutFacet(rec, i) ==
    [rec EXCEPT !.facets = SubSeq(rec.facets, 1, i - 1)
                               \o SubSeq(rec.facets, i + 1, Len(rec.facets))]

\* C3 (as claimed): a facet with byteStart > byteEnd or byteEnd past the end
\* of the text yields no segment, and the returned sequence is the one
\* returned for the record without that facet.
C3_MalformedTolerance ==
    (Parsed /\ record.hasFacets) =>
        \A i \in 1..Len(record.facets) :
            Malformed(record.facets[i]) =>
                /\ \A j \in AnnotatedSpans : Sorted[spans[j].facet] # record.facets[i]
                /\ segments = parseRichText(WithoutFacet(record, i))

\* C3 (amended): such a facet yields no segment; the returned sequence is the
\* one returned without that facet whenever another facet remains in the
\* list; when it is the only facet the result is what the loop leaves with no
\* facet accepted: nothing for an empty text, else the one plain segment
\* sliceByByteOffset(text, 0, utf8ByteLength(text)).
C3_MalformedToleranceAmended ==
    (Parsed /\ record.hasFacets) =>
        \A i \in 1..Len(record.facets) :
            Malformed(record.facets[i]) =>
                /\ \A j \in AnnotatedSpans : Sorted[spans[j].facet] # record.facets[i]
                /\ Len(record.facets) >= 2
                       => segments = parseRichText(WithoutFacet(record, i))
                /\ Len(record.facets) = 1
                       => segments =
                              IF TextByteLength = 0 THEN <<>>
                              ELSE <<[text |-> sliceByByteOffset(record.text, 0,
                                                                 TextByteLength),
                                      feature |-> <<>>]>>

\* C3 witness: a facet running past the end of the text next to a facet
\* that was rendered.
C3_Witness ==
    /\ Parsed
    /\ Len(record.facets) = 2
    /\ record.facets[1].byteEnd > TextByteLength
    /\ record.facets[1].byteStart < record.facets[1].byteEnd
    /\ Cardinality(AnnotatedSpans) = 1
    /\ Len(segments) = 3

\* C4: walking the sorted facets, a facet that starts before the cursor is
\* skipped: no segment is pushed and the cursor stays; the cursor is the
\* byteEnd of the last accepted facet; so the annotated segments of the result
\* cover pairwise disjoint byte ranges, each the whole range of its facet.
C4_OverlapRejection ==
    (Parsed /\ ~NoFacets(record)) =>
        /\ \A k \in 1..Len(Sorted) :
              Sorted[k].byteStart < LoopAfter(k - 1).cursor
                  => LoopAfter(k) = LoopAfter(k - 1)
        /\ \A i \in AnnotatedSpans :
              /\ spans[i].from = Sorted[spans[i].facet].byteStart
              /\ spans[i].to = Sorted[spans[i].facet].byteEnd
              /\ LoopAfter(spans[i].facet).cursor = spans[i].to
              /\ \A j \in AnnotatedSpans : i < j => spans[i].to <= spans[j].from

InBoundsNonEmpty(f) == f.byteStart < f.byteEnd /\ f.byteEnd <= TextByteLength

\* C4 witness: two facets, each acceptable on its own, the later-starting one
\* beginning inside the earlier one; only the earlier one was rendered.
C4_Witness ==
    /\ Parsed
    /\ Len(record.facets) = 2
    /\ InBoundsNonEmpty(Sorted[1]) /\ InBoundsNonEmpty(Sorted[2])
    /\ Sorted[1].byteStart < Sorted[2].byteStart
    /\ Sorted[2].byteStart < Sorted[1].byteEnd
    /\ Cardinality(AnnotatedSpans) = 1

\* the precondition of C5
WellFormedFacets ==
    /\ ~NoFacets(record)
    /\ \A i \in 1..Len(record.facets) :
          /\ InBoundsNonEmpty(record.facets[i])
          /\ OnCodePointBoundary(record.text, record.facets[i].byteStart)
          /\ OnCodePointBoundary(record.text, record.facets[i].byteEnd)
          /\ \A j \in 1..Len(record.facets) :
                i # j => \/ record.facets[i].byteEnd <= record.facets[j].byteStart
                         \/ record.facets[j].byteEnd <= record.facets[i].byteStart

\* C5 (as claimed): for well-formed facets the result has one annotated
\* segment per facet, in ascending byteStart order, whose text is the part of
\* the text occupying bytes [byteStart, byteEnd); a plain segment exactly in
\* front of each facet that starts after the previous one ended; a trailing
\* plain segment exactly when the last facet ends before the end of the text.
C5_WellFormedFacets ==
    (Parsed /\ WellFormedFacets) =>
        /\ Cardinality(AnnotatedSpans) = Len(Sorted)
        /\ \A i \in AnnotatedSpans :
              /\ spans[i].from = Sorted[spans[i].facet].byteStart
              /\ spans[i].to = Sorted[spans[i].facet].byteEnd
              /\ segments[i].feature = pickFeature(Sorted[spans[i].facet].features)
              /\ \A j \in AnnotatedSpans : i < j => spans[i].facet < spans[j].facet
        /\ \A i \in 1..Len(spans) :
              /\ spans[i].from < spans[i].to
              /\ spans[i].from = (IF i = 1 THEN 0 ELSE spans[i - 1].to)
              /\ segments[i].text = TextOfBytes(record.text, spans[i].from, spans[i].to)
              /\ (i \notin AnnotatedSpans) =>
                     /\ segments[i].feature = <<>>
                     /\ i > 1 => (i - 1) \in AnnotatedSpans
        /\ spans[Len(spans)].to = TextByteLength

\* C6: without facets (absent or empty array) the result is the one segment
\* {text: record.text} with no feature, multi-byte text included.
C6_NoFacetsIdentity ==
    (Parsed /\ (~record.hasFacets \/ record.facets = <<>>)) =>
        segments = <<[text |-> record.text, feature |-> <<>>]>>

\* C6 witness: an emoji followed by ASCII text, facets an empty array.
C6_Witness ==
    /\ Parsed
    /\ record.hasFacets /\ record.facets = <<>>
    /\ record.text = <<CharHi, CharLo, CharA>>
    /\ Len(segments) = 1

Converted == pc = "converted"

\* C7 (as claimed): for a byteOffset on a code-point boundary of the text the
\* returned index i is such that text.slice(0, i) has exactly byteOffset bytes.
C7_PrefixHasOffsetBytes ==
    (Converted /\ OnCodePointBoundary(record.text, byteOffset)) =>
        utf8ByteLength(SubSeq(record.text, 1, charIndex)) = byteOffset

\* C8 (as claimed): offset 0 gives index 0 and offset utf8ByteLength(text)
\* gives text.length.
C8_EdgeOffsets ==
    Converted =>
        /\ byteOffset = 0 => charIndex = 0
        /\ byteOffset = TextByteLength => charIndex = Len(record.text)

Merged == pc = "merged"

\* the entries of a layer list that are not undefined, null or false
NotFalsyEntry(v) == v \notin {Undefined, Null, False}
WithoutFalsy(layers) == SelectSeq(layers, NotFalsyEntry)

\* C9: the result is the result for the list without its undefined, null and
\* false entries, and is the empty object when nothing is left.
C9_FalsyLayersSkipped ==
    Merged =>
        /\ merged = generateClassNames(WithoutFalsy(classNamesArray), cnArg)
        /\ WithoutFalsy(classNamesArray) = <<>> => merged = Obj(0, NoProps)

\* C9 witness: null, an object and false were composed to the object's value.
C9_Witness ==
    /\ Merged
    /\ Len(classNamesArray) = 3
    /\ classNamesArray[1] = Null
    /\ IsObject(classNamesArray[2])
    /\ classNamesArray[3] = False
    /\ merged = Obj(0, [k \in {"root"} |-> Str(<<"a">>)])

\* the values the layers of a list define for a key, in layer order
DefinedValues(layers, key) ==
    LET objs == SelectSeq(layers, IsObject)
        Has(o) == key \in DOMAIN o.f /\ o.f[key] # Undefined
        holders == SelectSeq(objs, Has)
    IN  [i \in 1..Len(holders) |-> holders[i].f[key]]

AllStrings(values) == \A i \in 1..Len(values) : IsString(values[i])
AllObjects(values) == \A i \in 1..Len(values) : IsObject(values[i])

\* the non-empty strings of a list, in order, with one space between them
RECURSIVE SpaceJoined(_)
SpaceJoined(values) ==
    IF values = <<>> THEN <<>>
    ELSE LET rest == SpaceJoined(Tail(values))
         IN  IF values[1].s = <<>> THEN rest
             ELSE IF rest = <<>> THEN values[1].s
             ELSE values[1].s \o <<" ">> \o rest

\* C10: without a combiner, a key whose defined values are all strings gets
\* the non-empty ones joined by one space in layer order; the same holds for
\* the keys of a nested object.
C10_DefaultStringMerge ==
    (Merged /\ cnArg = "undefined") =>
        \A key \in Keys :
            LET values == DefinedValues(classNamesArray, key)
            IN  /\ (values # <<>> /\ AllStrings(values)) =>
                       /\ key \in DOMAIN merged.f
                       /\ merged.f[key] = Str(SpaceJoined(values))
                /\ (values # <<>> /\ AllObjects(values)) =>
                       \A nkey \in NestedKeys :
                           LET nvalues == DefinedValues(values, nkey)
                           IN  (nvalues # <<>> /\ AllStrings(nvalues)) =>
                                   /\ key \in DOMAIN merged.f
                                   /\ nkey \in DOMAIN merged.f[key].f
                                   /\ merged.f[key].f[nkey] = Str(SpaceJoined(nvalues))

\* C10 witness: the layers define "a", "" and "b" for root, composed to "a b".
C10_Witness ==
    /\ Merged
    /\ cnArg = "undefined"
    /\ DefinedValues(classNamesArray, "root") = <<Str(<<"a">>), Str(<<>>), Str(<<"b">>)>>
    /\ merged.f["root"] = Str(<<"a", " ", "b">>)

\* the strings of a list, in order, with "|" between them, none left out
RECURSIVE BarJoined(_)
BarJoined(values) ==
    IF values = <<>> THEN <<>>
    ELSE IF Len(values) = 1 THEN values[1].s
    ELSE values[1].s \o <<"|">> \o BarJoined(Tail(values))

\* C11: with the combiner cn = (...args) => args.join('|'), a key whose
\* defined values are all strings gets cn of all of them, in layer order, the
\* empty ones included; the keys of a nested object get the same cn.
C11_CustomCombiner ==
    (Merged /\ cnArg = "joinAll") =>
        \A key \in Keys :
            LET values == DefinedValues(classNamesArray, key)
            IN  /\ (values # <<>> /\ AllStrings(values)) =>
                       /\ key \in DOMAIN merged.f
                       /\ merged.f[key] = Str(BarJoined(values))
                /\ (values # <<>> /\ AllObjects(values)) =>
                       \A nkey \in NestedKeys :
                           LET nvalues == DefinedValues(values, nkey)
                           IN  (nvalues # <<>> /\ AllStrings(nvalues)) =>
                                   /\ key \in DOMAIN merged.f
                                   /\ nkey \in DOMAIN merged.f[key].f
                                   /\ merged.f[key].f[nkey] = Str(BarJoined(nvalues))

\* C11 witness: "a", "" and "b" for root were combined to "a||b", and so were
\* the values of a nested key.
C11_Witness ==
    /\ Merged
    /\ cnArg = "joinAll"
    /\ \E key \in Keys :
          /\ DefinedValues(classNamesArray, key)
                 = <<Str(<<"a">>), Str(<<>>), Str(<<"b">>)>>
          /\ merged.f[key] = Str(<<"a", "|", "|", "b">>)

\* C11 witness at depth: the values of a nested key were combined with cn.
C11_NestedWitness ==
    /\ Merged
    /\ cnArg = "joinAll"
    /\ "root" \in DOMAIN merged.f
    /\ IsObject(merged.f["root"])
    /\ "item" \in DOMAIN merged.f["root"].f
    /\ merged.f["root"].f["item"] = Str(<<"a", "|", "|", "b">>)

\* C12: when the first value defined for a key is a nested object, the value
\* of the key in the result is generateClassNames of all the values defined
\* for the key, in layer order, with the same combiner; this holds again for
\* the keys of the nested object.
C12_NestedMerge ==
    Merged =>
        \A key \in Keys :
            LET values == DefinedValues(classNamesArray, key)
            IN  (values # <<>> /\ IsObject(values[1])) =>
                    /\ merged # TypeError
                    /\ key \in DOMAIN merged.f
                    /\ merged.f[key] = generateClassNames(values, cnArg)
                    /\ \A nkey \in NestedKeys :
                           LET nvalues == DefinedValues(values, nkey)
                           IN  (AllObjects(values) /\ nvalues # <<>>
                                    /\ IsObject(nvalues[1])) =>
                                   /\ nkey \in DOMAIN merged.f[key].f
                                   /\ merged.f[key].f[nkey]
                                          = generateClassNames(nvalues, cnArg)

\* C12 witness: [{root: {item: {item: "a"}}}, {root: {item: {item: "b"}}}]
\* was composed with the combiner to {root: {item: {item: "a|b"}}}.
C12_Witness ==
    /\ Merged
    /\ cnArg = "joinAll"
    /\ Len(classNamesArray) = 2
    /\ DefinedValues(DefinedValues(DefinedValues(classNamesArray, "root"), "item"), "item")
           = <<Str(<<"a">>), Str(<<"b">>)>>
    /\ merged = Obj(0, [k \in {"root"} |->
                   Obj(0, [k2 \in {"item"} |->
                       Obj(0, [k3 \in {"item"} |-> Str(<<"a", "|", "b">>)])])])

\* the identities of the objects of a value, at every depth
RECURSIVE RefsOf(_)
RefsOf(v) ==
    IF IsObject(v)
    THEN {v.ref} \cup UNION {RefsOf(v.f[k]) : k \in DOMAIN v.f}
    ELSE {}

\* a value without its keys whose value is undefined and without the
\* identities of its objects
RECURSIVE Pruned(_)
Pruned(v) ==
    IF IsObject(v)
    THEN Obj(0, [k \in {j \in DOMAIN v.f : v.f[j] # Undefined} |-> Pruned(v.f[k])])
    ELSE v

\* a call generateClassNames([L]) for an object L has returned
SingleLayer ==
    /\ Merged
    /\ cnArg = "undefined"
    /\ Len(classNamesArray) = 1
    /\ IsObject(classNamesArray[1])

\* deep equality as the test of the single-layer case takes it (toEqual):
\* equal strings, or objects equal key by key at every depth, a key whose
\* value is undefined counting as an absent key; identities play no part
DeepEqual(a, b) == Pruned(a) = Pruned(b)

\* C13: generateClassNames([L]) is deeply equal to L, and none of its objects,
\* top level or nested, is an object of L.
C13_SingleLayerIdentity ==
    SingleLayer =>
        /\ IsObject(merged)
        /\ DeepEqual(merged, classNamesArray[1])
        /\ RefsOf(merged) \cap RefsOf(classNamesArray[1]) = {}

\* C13 witness: a layer with an object nested in a nested object came back
\* equal, every object of the result a new one.
C13_Witness ==
    /\ SingleLayer
    /\ classNamesArray[1] = Obj(1, [k \in {"root"} |->
                               Obj(2, [k2 \in {"item"} |->
                                   Obj(3, [k3 \in {"item"} |-> Str(<<"a">>)])])])
    /\ DeepEqual(merged, classNamesArray[1])
    /\ RefsOf(merged) = {0}

\* the identities of all objects of the input layers
InputRefs == UNION {RefsOf(classNamesArray[i]) : i \in 1..Len(classNamesArray)}

\* C14: no object of the result, top level or nested, is an object of an
\* input layer, whatever the types of the values of a key, so that a later
\* change of an input object cannot show in the result. (The call itself
\* assigns to no input object: ComposeDefault and ComposeWithCn leave
\* classNamesArray unchanged.)
C14_NoAliasing ==
    Merged =>
        /\ IsObject(merged)
        /\ RefsOf(merged) \cap InputRefs = {}

\* some of the values are strings and some are objects
MixedTypes(values) ==
    /\ \E i \in 1..Len(values) : IsString(values[i])
    /\ \E i \in 1..Len(values) : IsObject(values[i])

\* C15: when the values defined for a key are some strings and some objects,
\* in whichever order, the call returns and the value of the key in the result
\* is the last defined value alone.
C15_TypeInconsistentLayers ==
    Merged =>
        \A key \in Keys :
            LET values == DefinedValues(classNamesArray, key)
            IN  MixedTypes(values) =>
                    /\ IsObject(merged)
                    /\ key \in DOMAIN merged.f
                    /\ DeepEqual(merged.f[key], values[Len(values)])

\* ------------------------------------------------------ debounced search
Max(S) == CHOOSE x \in S : \A y \in S : y <= x

\* the runs of calls made so far, each call arriving less than delayMs after
\* the one before it, and the calls of a run
Runs == {promises[k].run : k \in 1..Len(promises)}
CallsOfRun(r) == {k \in 1..Len(promises) : promises[k].run = r}
LastCallOf(r) == Max(CallsOfRun(r))

\* delayMs have passed since the last call of run r
RunElapsed(r) == ~(\E t \in timers : t.id = LastCallOf(r))

\* the calls of searchBskyActors made for the calls of run r
RequestsOfRun(r) ==
    {i \in 1..Len(searches) : promises[searches[i].via].run = r}

\* C16: a run of calls, each less than delayMs after the one before, issues
\* one call of searchBskyActors, when delayMs have passed since its last call
\* and with the query of that last call; a call that arrives after that
\* starts a run of its own, with a request of its own.
C16_DebounceCoalescing ==
    \A r \in Runs :
        /\ Cardinality(RequestsOfRun(r)) <= 1
        /\ RunElapsed(r) <=> Cardinality(RequestsOfRun(r)) = 1
        /\ \A i \in RequestsOfRun(r) :
               /\ searches[i].via = LastCallOf(r)
               /\ searches[i].query = promises[LastCallOf(r)].query
               /\ searches[i].fetched => searches[i].q = Trim(promises[LastCallOf(r)].query)

\* C16 witness: calls "a" and " b" in one run, then "a" after the window:
\* two requests, for " b" and for "a".
C16_Witness ==
    /\ Len(promises) = 3
    /\ promises[1].run = 1 /\ promises[2].run = 1 /\ promises[3].run = 2
    /\ promises[1].query = <<"a">>
    /\ promises[2].query = <<" ", "b">>
    /\ promises[3].query = <<"a">>
    /\ timers = {}
    /\ Len(searches) = 2
    /\ searches[1].q = <<"b">>
    /\ searches[2].q = <<"a">>

\* the promises the debounced function has returned and that have settled
SettledPromises == {k \in 1..Len(promises) : promises[k].state # "pending"}

\* the run of calls whose last call the search number i was made for
RunOfSearch(i) == promises[searches[i].via].run

\* C17 (what holds in every state): no promise of the debounced function is
\* rejected; a caller gets the result of the search made for the latest call
\* of a debounce window it was pending in, its own or a later one; and the
\* callers of one window all get the same result.
C17_NoDanglingPromises ==
    \A k \in SettledPromises :
        /\ promises[k].state = "fulfilled"
        /\ RunOfSearch(promises[k].from) >= promises[k].run
        /\ promises[k].value = searches[promises[k].from].value
        /\ \A j \in SettledPromises :
               promises[j].run = promises[k].run =>
                   /\ promises[j].from = promises[k].from
                   /\ promises[j].value = promises[k].value

\* C17 (what comes about): every promise of the debounced function settles,
\* when timers fire and the network answers (SpecDebounceFair).
C17_EventuallySettles ==
    \A k \in 1..MaxCalls :
        (Len(promises) >= k) ~> (Len(promises) >= k /\ promises[k].state # "pending")

\* the ways a call of searchBskyActors ends that the claim gives [] for
EmptyEndings == {"blank", "fetchRejects", "notOk", "jsonRejects", "noActors"}

\* C18: the promise of searchBskyActors is never rejected; for a blank query
\* it is fulfilled with [] and nothing is fetched; it is fulfilled with []
\* when fetch rejects, the response is not ok, res.json() rejects or the
\* data has no actors; and the promise of a debounced call with a blank
\* query is fulfilled with [], nothing fetched for it.
C18_NeverRejects ==
    /\ \A i \in 1..Len(searches) :
           LET s == searches[i]
           IN  /\ s.state # "rejected"
               /\ Trim(s.query) = <<>> =>
                      /\ s.phase = "done" /\ s.state = "fulfilled"
                      /\ s.value = <<>> /\ ~s.fetched
               /\ (s.phase = "done" /\ s.why \in EmptyEndings) =>
                      s.state = "fulfilled" /\ s.value = <<>>
    /\ \A k \in SettledPromises :
           Trim(promises[k].query) = <<>> =>
               /\ promises[k].state = "fulfilled"
               /\ promises[k].value = <<>>
               /\ ~searches[promises[k].from].fetched

\* C18 amended: as C18 for searchBskyActors itself; and when the timer of a
\* debounced call with a blank query fires, nothing is fetched and every
\* promise still pending, among them that of the call unless settled before,
\* is fulfilled with [].
C18_NeverRejectsAmended ==
    /\ \A i \in 1..Len(searches) :
           LET s == searches[i]
           IN  /\ s.state # "rejected"
               /\ Trim(s.query) = <<>> =>
                      /\ s.phase = "done" /\ s.state = "fulfilled"
                      /\ s.value = <<>> /\ ~s.fetched
                      /\ pendingResolvers = <<>> \/ pendingResolvers[1] > s.via
                      /\ promises[s.via].state = "fulfilled"
                      /\ \A k \in SettledPromises :
                             promises[k].from = i => promises[k].value = <<>>
               /\ (s.phase = "done" /\ s.why \in EmptyEndings) =>
                      s.state = "fulfilled" /\ s.value = <<>>
    /\ \A k \in 1..Len(promises) : promises[k].state # "rejected"

\* C18 witness: a debounced call with "" was answered [] with nothing
\* fetched, and a search whose fetch was rejected ended with [].
C18_Witness ==
    /\ \E i \in 1..Len(searches) :
           /\ searches[i].query = <<>>
           /\ ~searches[i].fetched
           /\ promises[searches[i].via].from = i
           /\ promises[searches[i].via].value = <<>>
    /\ \E i \in 1..Len(searches) :
           /\ searches[i].why = "fetchRejects"
           /\ searches[i].state = "fulfilled"
           /\ searches[i].value = <<>>

\* C19: a promise of the debounced function is never resolved with the
\* results of a search whose query was submitted before the promise's own
\* call.
C19_DebounceFreshness ==
    \A k \in SettledPromises : searches[promises[k].from].via >= k

\* ------------------------------------------------------------ tie-break
\* where the facet number i of record.facets stands in an ascending order by
\* byteStart that keeps ties in input order
StablePosition(i) ==
    LET fs == record.facets
    IN  Cardinality({j \in 1..Len(fs) : fs[j].byteStart < fs[i].byteStart})
        + Cardinality({j \in 1..i : fs[j].byteStart = fs[i].byteStart})

\* the facets of record.facets rendered as a segment, by input position
Rendered ==
    {i \in 1..Len(record.facets) :
        \E s \in AnnotatedSpans : spans[s].facet = StablePosition(i)}

\* C20: the facets are processed in ascending byteStart order, ties in input
\* order; of the valid facets with one byteStart only the first of
\* record.facets can be rendered, with its own range and feature.
C20_TieBreak ==
    (Parsed /\ ~NoFacets(record)) =>
        LET fs == record.facets
        IN  /\ \A i \in 1..Len(fs) : Sorted[StablePosition(i)] = fs[i]
            /\ \A k \in 1..(Len(Sorted) - 1) :
                   Sorted[k].byteStart <= Sorted[k + 1].byteStart
            /\ \A i, j \in 1..Len(fs) :
                   (i < j /\ fs[i].byteStart = fs[j].byteStart
                       /\ InBoundsNonEmpty(fs[i]) /\ InBoundsNonEmpty(fs[j]))
                   => /\ j \notin Rendered
                      /\ (fs[i].byteStart >= LoopAfter(StablePosition(i) - 1).cursor
                            => i \in Rendered)
            /\ \A s \in AnnotatedSpans :
                   \E i \in 1..Len(fs) :
                       /\ spans[s].facet = StablePosition(i)
                       /\ spans[s].from = fs[i].byteStart
                       /\ spans[s].to = fs[i].byteEnd
                       /\ segments[s].feature = pickFeature(fs[i].features)

\* C20 witness: two valid facets start at byte 0, the first without a
\* feature and ending at 1, the second a mention ending at 2; the segment at
\* byte 0 is the first one's.
C20_Witness ==
    /\ Parsed
    /\ Len(record.facets) = 2
    /\ record.facets[1] = [byteStart |-> 0, byteEnd |-> 1, features |-> <<>>]
    /\ record.facets[2] = [byteStart |-> 0, byteEnd |-> 2,
                           features |-> <<"mention", "link">>]
    /\ TextByteLength >= 2
    /\ Rendered = {1}
    /\ spans[1] = [from |-> 0, to |-> 1, facet |-> 1]
    /\ segments[1].feature = <<>>

\* ---------------------------------------------------- feature selection
\* the facet at position k of the sorted copy is accepted by the loop: it is
\* in bounds, not empty, and does not start before the cursor
Accepted(k) ==
    /\ InBoundsNonEmpty(Sorted[k])
    /\ Sorted[k].byteStart >= LoopAfter(k - 1).cursor

\* C21: every accepted facet has one annotated segment, for its range, that
\* carries the first entry of its features and no feature when the list is
\* empty; either way the cursor moves to its byteEnd, so a later facet that
\* starts inside the range is not rendered.
C21_FeatureSelection ==
    (Parsed /\ ~NoFacets(record)) =>
        \A k \in 1..Len(Sorted) :
            Accepted(k) =>
                /\ Cardinality({s \in AnnotatedSpans : spans[s].facet = k}) = 1
                /\ \A s \in AnnotatedSpans :
                       spans[s].facet = k =>
                           /\ spans[s].from = Sorted[k].byteStart
                           /\ spans[s].to = Sorted[k].byteEnd
                           /\ segments[s].feature =
                                  (IF Len(Sorted[k].features) = 0 THEN <<>>
                                   ELSE <<Sorted[k].features[1]>>)
                /\ LoopAfter(k).cursor = Sorted[k].byteEnd
                /\ \A j \in (k + 1)..Len(Sorted) :
                       Sorted[j].byteStart < Sorted[k].byteEnd =>
                           ~(\E s \in AnnotatedSpans : spans[s].facet = j)

\* C21 witness: a facet without features over bytes 0..2 was rendered without
\* a feature, and the mention facet over bytes 1..3 was not rendered.
C21_Witness ==
    /\ Parsed
    /\ Len(record.facets) = 2
    /\ TextByteLength >= 3
    /\ Sorted[1] = [byteStart |-> 0, byteEnd |-> 2, features |-> <<>>]
    /\ Sorted[2] = [byteStart |-> 1, byteEnd |-> 3, features |-> <<"mention", "link">>]
    /\ spans[1] = [from |-> 0, to |-> 2, facet |-> 1]
    /\ segments[1].feature = <<>>
    /\ AnnotatedSpans = {1}

\* ------------------------------------------------------ empty segments
\* both ends of the byte range of segment i are on code-point boundaries
RangeOnBoundaries(i) ==
    /\ OnCodePointBoundary(record.text, spans[i].from)
    /\ OnCodePointBoundary(record.text, spans[i].to)

\* C22 as stated: a returned segment has zero-length text only when it is the
\* segment of a facet whose range is not on code-point boundaries.
C22_NoEmptySegments ==
    Parsed =>
        \A i \in 1..Len(segments) :
            segments[i].text = <<>> =>
                (spans[i].facet # 0 /\ ~RangeOnBoundaries(i))

\* the character indices the ends of the byte range of segment i convert to
StartIndex(i) == utf8ByteOffsetToCharIndex(record.text, spans[i].from)
EndIndex(i) == utf8ByteOffsetToCharIndex(record.text, spans[i].to)

\* C22 amended: a segment cut by the loop covers a non-empty byte range; a
\* returned segment, plain or annotated, has zero-length text only when it is
\* the single segment returned for an empty text without facets, or when the
\* end of its range converts to no larger a character index than its start;
\* in a text that does not start with U+FEFF a range with both ends on
\* code-point boundaries never does.
C22_NoEmptySegmentsAmended ==
    Parsed =>
        \A i \in 1..Len(segments) :
            /\ ~NoFacets(record) => spans[i].from < spans[i].to
            /\ segments[i].text = <<>> =>
                   \/ NoFacets(record) /\ record.text = <<>> /\ Len(segments) = 1
                   \/ ~NoFacets(record) /\ EndIndex(i) <= StartIndex(i)
            /\ (record.text # <<>> /\ record.text[1] # CharBOM /\ RangeOnBoundaries(i))
                   => segments[i].text # <<>>

\* C22 witness: in 'a' + U+FEFF a facet over bytes 0..2 ends inside U+FEFF; the
\* plain segment after it, over bytes 2..4, has zero-length text.
C22_Witness ==
    /\ Parsed
    /\ record.text = <<CharA, CharBOM>>
    /\ Len(segments) = 2
    /\ spans[1] = [from |-> 0, to |-> 2, facet |-> 1]
    /\ spans[2] = [from |-> 2, to |-> 4, facet |-> 0]
    /\ segments[2].text = <<>>
    /\ ~RangeOnBoundaries(2)

\* -------------------------------------------------- non-boundary offsets
\* C23: for every text and every byteOffset in 0..utf8ByteLength(text), on a
\* code-point boundary or not, the call of utf8ByteOffsetToCharIndex returns,
\* and returns an integer in 0..text.length; parseRichText returns for facets
\* whose ranges are off code-point boundaries, each segment the slice between
\* two such indices.
C23_NoCrash ==
    /\ (pc = "input" /\ byteOffset <= utf8ByteLength(record.text))
           => ENABLED ConvertOffset
    /\ (Converted /\ byteOffset <= utf8ByteLength(record.text))
           => charIndex \in 0..Len(record.text)
    /\ (Parsed /\ ~NoFacets(record)) =>
           /\ Len(segments) = Len(spans)
           /\ \A i \in 1..Len(segments) :
                  /\ StartIndex(i) \in 0..Len(record.text)
                  /\ EndIndex(i) \in 0..Len(record.text)
                  /\ segments[i].text = StringSlice(record.text, StartIndex(i), EndIndex(i))

\* C23 witness: byte offset 2 of a four-byte character, inside it, was
\* converted to index 1.
C23_Witness ==
    /\ Converted
    /\ record.text = <<CharHi, CharLo>>
    /\ byteOffset = 2
    /\ ~OnCodePointBoundary(record.text, byteOffset)
    /\ charIndex = 1

\* C23 witness for the parser: a facet over bytes 1..3 of a four-byte
\* character was parsed.
C23_ParserWitness ==
    /\ Parsed
    /\ record.text = <<CharHi, CharLo>>
    /\ \E i \in 1..Len(spans) :
           spans[i].facet # 0 /\ spans[i].from = 1 /\ spans[i].to = 3

\* ------------------------------------------------------------- key set
\* the list with x put in after its first p elements
InsertAt(list, p, x) == SubSeq(list, 1, p) \o <<x>> \o SubSeq(list, p + 1, Len(list))

\* an empty object {} that is none of the input objects
EmptyLayer == Obj(3 * MaxLayers + 1, NoProps)

\* the keys with a value other than undefined in some object of the layers
DefinedKeys(layers, keys) == {k \in keys : DefinedValues(layers, k) # <<>>}

\* C24: the result has exactly the keys that have a value other than
\* undefined in some non-falsy layer, at the top level and in a nested object
\* merged from objects; the result for the layers with {} put in at any
\* position is the same.
C24_KeySet ==
    Merged =>
        /\ IsObject(merged)
        /\ DOMAIN merged.f = DefinedKeys(classNamesArray, Keys)
        /\ \A key \in DOMAIN merged.f :
               LET values == DefinedValues(classNamesArray, key)
               IN  AllObjects(values) =>
                       /\ IsObject(merged.f[key])
                       /\ DOMAIN merged.f[key].f = DefinedKeys(values, NestedKeys)
        /\ \A p \in 0..Len(classNamesArray) :
               generateClassNames(InsertAt(classNamesArray, p, EmptyLayer), cnArg) = merged

\* C24 witness: of [{root: 'a'}, {item: undefined}, {root: undefined}] only
\* root is a key of the result.
C24_Witness ==
    /\ Merged
    /\ classNamesArray = <<Obj(1, [k \in {"root"} |-> Str(<<"a">>)]),
                           Obj(4, [k \in {"item"} |-> Undefined]),
                           Obj(7, [k \in {"root"} |-> Undefined])>>
    /\ merged = Obj(0, [k \in {"root"} |-> Str(<<"a">>)])

\* ------------------------------------------------------ suggestion items
\* the promise of items has settled
ItemsDone == items.state \notin {"none", "pending"}

\* C25: for an empty query items returns [] and onMentionQuery is not called;
\* for another query onMentionQuery is called once and items returns the
\* first 8 of its results, all of them when they are fewer, and [] when
\* onMentionQuery rejects or throws; the promise of items is never rejected.
C25_SuggestionItems ==
    /\ items.state # "rejected"
    /\ ItemsDone =>
           /\ mentionQuery = <<>> => (items.value = <<>> /\ queryCalls = 0)
           /\ mentionQuery # <<>> =>
                  /\ queryCalls = 1
                  /\ onMentionQuery.kind = "resolves" =>
                         /\ Len(items.value) <= 8
                         /\ Len(onMentionQuery.results) <= 8
                                => items.value = onMentionQuery.results
                         /\ Len(onMentionQuery.results) > 8
                                => items.value = SubSeq(onMentionQuery.results, 1, 8)
                  /\ onMentionQuery.kind # "resolves" => items.value = <<>>

\* C25 witness: onMentionQuery resolved with 10 results for "a", items
\* returned the first 8.
C25_Witness ==
    /\ ItemsDone
    /\ mentionQuery = <<"a">>
    /\ Len(onMentionQuery.results) = 10
    /\ items = ItemsPromise("fulfilled", <<1, 2, 3, 4, 5, 6, 7, 8>>)
    /\ queryCalls = 1

\* --------------------------------------------------- order independence
\* no two facets of the list have the same byteStart
DistinctStarts(fs) ==
    \A i, j \in 1..Len(fs) : i # j => fs[i].byteStart # fs[j].byteStart

\* the record with its facets rearranged by the permutation f of 1..length
Permuted(rec, f) ==
    [rec EXCEPT !.facets = [i \in 1..Len(rec.facets) |-> rec.facets[f[i]]]]

\* C26: a call of parseRichText leaves record, so the order and contents of
\* record.facets, as it was; for facets with pairwise distinct byteStart the
\* segments it returns are those it returns for every permutation of
\* record.facets.
C26_OrderIndependence ==
    [][(pc = "input" /\ pc' = "parsed") =>
           /\ record' = record
           /\ (~NoFacets(record) /\ DistinctStarts(record.facets)) =>
                  \A f \in Permutations(1..Len(record.facets)) :
                      parseRichText(Permuted(record, f)) = segments']_vars

\* C26 witness: two facets given with the later-starting one first were both
\* rendered, in byte order.
C26_Witness ==
    /\ Parsed
    /\ TextByteLength >= 3
    /\ record.facets = <<[byteStart |-> 2, byteEnd |-> 3, features |-> <<"mention", "link">>],
                         [byteStart |-> 0, byteEnd |-> 1, features |-> <<>>]>>
    /\ Len(spans) = 3
    /\ spans[1] = [from |-> 0, to |-> 1, facet |-> 1]
    /\ spans[3] = [from |-> 2, to |-> 3, facet |-> 2]

\* ------------------------------------------------- monotonic conversion
\* C27: for byte offsets a <= b within 0..utf8ByteLength(text), on a
\* code-point boundary or not, the index of a is not larger than the index
\* of b; here one of the two is the converted byteOffset and the other any
\* offset of the text.
C27_MonotonicConversion ==
    (Converted /\ byteOffset <= TextByteLength) =>
        \A other \in 0..TextByteLength :
            /\ other <= byteOffset
                   => utf8ByteOffsetToCharIndex(record.text, other) <= charIndex
            /\ byteOffset <= other
                   => charIndex <= utf8ByteOffsetToCharIndex(record.text, other)

\* ------------------------------------------------- associativity of layering
\* the values of every key, at every depth, are all strings or all objects
RECURSIVE TypeConsistent(_)
TypeConsistent(layers) ==
    \A key \in Keys :
        LET values == DefinedValues(layers, key)
        IN  /\ AllStrings(values) \/ AllObjects(values)
            /\ (values # <<>> /\ AllObjects(values)) => TypeConsistent(values)

\* a call generateClassNames([a, b, c]) without a combiner has returned, the
\* layers type-consistent
ThreeLayers ==
    /\ Merged
    /\ cnArg = "undefined"
    /\ Len(classNamesArray) = 3
    /\ TypeConsistent(classNamesArray)

\* generateClassNames([generateClassNames([a, b]), c])
LeftNested(layers) ==
    generateClassNames(<<generateClassNames(SubSeq(layers, 1, 2), "undefined"),
                         layers[3]>>, "undefined")

\* C28: with the default combiner and type-consistent layers a, b, c, the call
\* generateClassNames([generateClassNames([a, b]), c]) returns an object that
\* is deeply equal to the one generateClassNames([a, b, c]) returns.
C28_Associativity ==
    ThreeLayers =>
        /\ IsObject(merged)
        /\ IsObject(LeftNested(classNamesArray))
        /\ DeepEqual(LeftNested(classNamesArray), merged)

\* C28 witness: three layers with a string and a nested object each, the
\* strings and the nested strings combined in layer order either way.
C28_Witness ==
    /\ ThreeLayers
    /\ classNamesArray =
           <<Obj(1, [k \in {"item"} |-> Obj(2, [k2 \in {"item"} |-> Str(<<"a">>)])]),
             Obj(4, [k \in {"item"} |-> Obj(5, [k2 \in {"item"} |-> Str(<<"b">>)])]),
             Obj(7, [k \in {"item"} |-> Obj(8, [k2 \in {"item"} |-> Str(<<"a">>)])])>>
    /\ merged = Obj(0, [k \in {"item"} |->
                        Obj(0, [k2 \in {"item"} |-> Str(<<"a", " ", "b", " ", "a">>)])])
    /\ LeftNested(classNamesArray) = merged

\* -------------------------------------------------- the selection is valid
\* the list is mounted and no effect is waiting to run
ListSettled == pc = "list" /\ ~effectPending

\* C29: once the effects have run, selectedIndex is an integer, 0 when items
\* is empty and an index of items otherwise, and every call of command was
\* made with the handle of an item of the items of that moment.
C29_SelectionValid ==
    /\ ListSettled =>
           /\ selectedIndex # NaN
           /\ selectedIndex.n \in 0..(IF listItems = <<>> THEN 0 ELSE Len(listItems) - 1)
    /\ \A c \in 1..Len(commands) :
           \E i \in 1..Len(commands[c].items) : commands[c].items[i] = commands[c].id

\* ------------------------------------------------ memoised parsing
\* useRichText has been called at least once
HookRendered == pc = "hook" /\ segmentsMemo.set

\* C30: every render returns the segments parseRichText returns for the
\* record of that render; a render after the first calls parseRichText
\* exactly when the text or the serialised facets differ from those of the
\* render before, and otherwise returns what that render returned.
C30_MemoCoherent ==
    [][pc' = "hook" =>
           /\ segments' = parseRichText(record')
           /\ HookRendered =>
                  /\ recomputed' <=> (record'.text # record.text
                                      \/ FacetsKey(record') # FacetsKey(record))
                  /\ ~recomputed' => segments' = segments]_vars

\* C30 witness: after a render with two facets, a render with the same text
\* and a new array of the same facets returned the memoised segments, which
\* are those of parseRichText.
C30_Witness ==
    /\ HookRendered
    /\ ~recomputed
    /\ Len(arrays) = 2
    /\ arrays[1] = arrays[2]
    /\ facetsRef = 2
    /\ facetsKeyMemo.deps = <<2>>
    /\ record.text = <<CharA, CharA>>
    /\ record.facets = <<[byteStart |-> 1, byteEnd |-> 2, features |-> <<"mention", "link">>],
                         [byteStart |-> 0, byteEnd |-> 1, features |-> <<>>]>>
    /\ segments = parseRichText(record)
    /\ Len(segments) = 2

====
